---- MODULE Spec2Model ----
(***************************************************************************)
(* Model of bench/nomad/main.go: the nomad-bench driver.                   *)
(*   main          dispatches on os.Args[1]                                *)
(*   handleSetup   writes the job file                                    *)
(*   handleRun     registers NOMAD_NUM_JOBS copies of the job              *)
(*   handleStatus  watches the allocations and writes changed counters     *)
(*   handleTeardown deregisters every job and removes the directory        *)
(* One process runs one command; pc is its position in the code.           *)
(***************************************************************************)
EXTENDS Integers, Naturals, Sequences, FiniteSets, TLC

\* ---------------------------------------------------------------- bounds
\* largest raft index the orchestrator reports in a response
MaxIndex == 5
\* largest number of allocations in one response
MaxAllocs == 3
\* largest job count given in NOMAD_NUM_JOBS
MaxJobs == 11

\* ------------------------------------------------------------- constants
\* a nil *api.QueryMeta / a metric the status server never received
Nil == -1

\* structs.AllocClientStatus*: the two the loop counts, and one other
Statuses == {"pending", "running", "failed"}

\* the metric names, in the order the loop writes them
Names == <<"placed", "booting", "running">>

VARIABLES
    osArgs,         \* os.Args
    pc,             \* position of the process
    exitCode,       \* process exit status, Nil while running
    index,          \* handleStatus: the wait index
    lastTotal,      \* handleStatus: last written "placed"
    lastPending,    \* handleStatus: last written "booting"
    lastRunning,    \* handleStatus: last written "running"
    args,           \* handleStatus: QueryOptions of this iteration's query
    resp,           \* handleStatus: allocations returned (client statuses)
    qm,             \* handleStatus: qm.LastIndex returned, Nil if none
    err,            \* handleStatus: the query failed
    allocsTotal,    \* handleStatus: counts of this iteration, 0 if not counted
    allocsPending,
    allocsRunning,
    emitted,        \* statusClient.Set calls of this iteration, in order
    sink,           \* last value passed to Set per name, or Nil
    setErr,         \* the latest Set calls returned an error
    clock,          \* ticks since this iteration began: one a blocking call
    ts,             \* handleStatus: ts of this iteration, Nil if not taken
    stamps,         \* timestamps passed to the Set calls of this iteration
    returnedAt,     \* clock when the query returned its response, or Nil
    obs,            \* responses counted so far: "none", "first", "later"
    prevQm,         \* LastIndex the query before this one returned, or Nil
    env,            \* handleRun: NOMAD_NUM_JOBS as read, if it was read
    steps,          \* handleRun: the steps before the loop that succeeded
    numJobs,        \* handleRun: parsed NOMAD_NUM_JOBS
    i,              \* handleRun: loop counter
    calls,          \* job IDs of the Register calls made, failed or not
    registered,     \* job IDs of the Register calls that succeeded
    jobFile,        \* handleSetup: count written to job.nomad, Nil if none
    listed,         \* handleTeardown: the listing succeeded
    jobs,           \* handleTeardown: job IDs the listing returned
    pos,            \* handleTeardown: jobs of the listing passed so far
    deregCalls,     \* job IDs of the Deregister calls made, failed or not
    deregistered,   \* job IDs of the Deregister calls that succeeded
    dirRemoved      \* handleTeardown: os.RemoveAll succeeded

vars == <<osArgs, pc, exitCode, index, lastTotal, lastPending, lastRunning,
          args, resp, qm, err, allocsTotal, allocsPending, allocsRunning,
          emitted, sink, setErr, clock, ts, stamps, returnedAt, obs, prevQm,
          env, steps, numJobs, i, calls,
          registered, jobFile, listed, jobs, pos, deregCalls, deregistered,
          dirRemoved>>

statusVars == <<index, lastTotal, lastPending, lastRunning, args, resp, qm,
                err, allocsTotal, allocsPending, allocsRunning, emitted,
                sink, setErr, clock, ts, stamps, returnedAt, obs, prevQm>>

runVars == <<env, steps, numJobs, i, calls, registered>>

setupVars == <<jobFile>>

teardownVars == <<listed, jobs, pos, deregCalls, deregistered, dirRemoved>>

\* ------------------------------------------------------------ strconv/fmt
Digits == <<"0", "1", "2", "3", "4", "5", "6", "7", "8", "9">>

IsDigit(c) == \E d \in 1..10 : Digits[d] = c

DigitVal(c) == (CHOOSE d \in 1..10 : Digits[d] = c) - 1

\* decimal digits of n >= 0, most significant first (the %d verb)
RECURSIVE FormatNat(_)
FormatNat(n) ==
    IF n < 10 THEN <<Digits[n + 1]>>
    ELSE FormatNat(n \div 10) \o <<Digits[(n % 10) + 1]>>

\* value of a non-empty string of digits
RECURSIVE ParseNat(_)
ParseNat(s) ==
    IF Len(s) = 1 THEN DigitVal(s[1])
    ELSE 10 * ParseNat(SubSeq(s, 1, Len(s) - 1)) + DigitVal(s[Len(s)])

\* strconv.Atoi: [ok, val]; an optional sign, then at least one digit
Atoi(s) ==
    LET signed == Len(s) > 0 /\ s[1] \in {"+", "-"}
        body   == IF signed THEN Tail(s) ELSE s
    IN  IF body = <<>> \/ \E k \in 1..Len(body) : ~IsDigit(body[k])
        THEN [ok |-> FALSE, val |-> 0]
        ELSE [ok |-> TRUE,
              val |-> IF signed /\ s[1] = "-" THEN 0 - ParseNat(body)
                      ELSE ParseNat(body)]

\* fmt.Sprintf("job-%d", i)
JobID(n) == <<"j", "o", "b", "-">> \o FormatNat(n)

\* ------------------------------------------------------------------ inputs
\* command lines
ArgvSet ==
    { <<"nomad-bench">>,
      <<"nomad-bench", "bogus">>,
      <<"nomad-bench", "setup">>,
      <<"nomad-bench", "setup", "x">>,
      <<"nomad-bench", "teardown">>,
      <<"nomad-bench", "teardown", "dir">>,
      <<"nomad-bench", "run">>,
      <<"nomad-bench", "run", "x">>,
      <<"nomad-bench", "status">>,
      <<"nomad-bench", "status", "addr">> }

\* values of NOMAD_NUM_JOBS and NOMAD_NUM_CONTAINERS
EnvValues ==
    { FormatNat(n) : n \in 0..MaxJobs }
        \cup { <<>>, <<"x">>, <<"1", "x">>, <<"-", "1">>, <<"+", "2">>,
               <<"-">> }

\* allocation listings: every sequence of statuses up to MaxAllocs long
Responses == UNION { [1..n -> Statuses] : n \in 0..MaxAllocs }

\* job listings: the jobs a run left registered
Listings == { [k \in 1..n |-> JobID(k - 1)] : n \in 0..MaxJobs }

\* indexes a response can carry: below the first wait index (a stale server
\* may be behind), equal to it, and well above it
Indexes == (0..1) \cup (5..MaxIndex)

\* ---------------------------------------------------------- process start
Init ==
    /\ osArgs = <<>>
    /\ pc = "start"
    /\ exitCode = Nil
    /\ index = 1
    /\ lastTotal = 0
    /\ lastPending = 0
    /\ lastRunning = 0
    /\ args = [AllowStale |-> FALSE, WaitIndex |-> 0]
    /\ resp = <<>>
    /\ qm = Nil
    /\ err = FALSE
    /\ allocsTotal = 0
    /\ allocsPending = 0
    /\ allocsRunning = 0
    /\ emitted = <<>>
    /\ sink = [n \in {"placed", "booting", "running"} |-> Nil]
    /\ setErr = FALSE
    /\ clock = 0
    /\ ts = Nil
    /\ stamps = <<>>
    /\ returnedAt = Nil
    /\ obs = "none"
    /\ prevQm = Nil
    /\ env = [read |-> FALSE, val |-> <<>>]
    /\ steps = <<>>
    /\ numJobs = 0
    /\ i = 0
    /\ calls = <<>>
    /\ registered = <<>>
    /\ jobFile = Nil
    /\ listed = FALSE
    /\ jobs = <<>>
    /\ pos = 0
    /\ deregCalls = <<>>
    /\ deregistered = <<>>
    /\ dirRemoved = FALSE

\* log.Fatal*: print and os.Exit(1)
Fatal ==
    /\ pc' = "fatal"
    /\ exitCode' = 1

\* main: check the args and switch on the command
Main(argv) ==
    /\ pc = "start"
    /\ osArgs' = argv
    /\ IF Len(argv) < 2 THEN Fatal
       ELSE IF argv[2] \in {"setup", "run", "status", "teardown"}
            THEN pc' = argv[2] /\ exitCode' = exitCode
            ELSE Fatal
    /\ UNCHANGED <<statusVars, runVars, setupVars, teardownVars>>

\* --------------------------------------------------------- handleSetup
\* check the args, parse NOMAD_NUM_CONTAINERS, create and write job.nomad
HandleSetup(v, createOk, writeOk) ==
    /\ pc = "setup"
    /\ IF Len(osArgs) # 2 \/ ~Atoi(v).ok \/ ~createOk \/ ~writeOk
       THEN Fatal /\ UNCHANGED jobFile
       ELSE /\ jobFile' = Atoi(v).val
            /\ pc' = "exit"
            /\ exitCode' = 0
    /\ UNCHANGED <<osArgs, statusVars, runVars, teardownVars>>

\* ------------------------------------------------------------ handleRun
\* convertStructJob: the gob encoding and decoding both succeed, or an error
ConvertStructJob(encodeOk, decodeOk) == encodeOk /\ decodeOk

\* the steps of handleRun before the loop, in their order
RunSteps == <<"args", "count", "parse", "convert", "client">>

\* the steps that succeed before the first that fails
RECURSIVE StepsDone(_)
StepsDone(oks) ==
    IF oks = <<>> \/ ~Head(oks) THEN 0 ELSE 1 + StepsDone(Tail(oks))

\* HandleRun with the error of convertStructJob dropped
HandleRunIgnoreConvert(v, parseOk, convertOk, clientOk) ==
    LET n == StepsDone(<<Len(osArgs) = 2, Atoi(v).ok, parseOk>>)
        m == IF n = 3 /\ clientOk THEN 5 ELSE n
    IN  /\ pc = "run"
        /\ steps' = IF m = 5
                     THEN SelectSeq(RunSteps,
                                    LAMBDA x : x # "convert" \/ convertOk)
                     ELSE SubSeq(RunSteps, 1, n)
        /\ env' = IF n >= 1 THEN [read |-> TRUE, val |-> v] ELSE env
        /\ numJobs' = IF n >= 2 THEN Atoi(v).val ELSE numJobs
        /\ IF m = 5
           THEN pc' = "register" /\ i' = 0 /\ exitCode' = exitCode
           ELSE Fatal /\ i' = i
        /\ UNCHANGED <<osArgs, calls, registered, statusVars, setupVars,
                       teardownVars>>

\* check the args, parse NOMAD_NUM_JOBS, parse and convert the job file,
\* create the API client; the first step that fails is fatal
HandleRun(v, parseOk, convertOk, clientOk) ==
    LET n == StepsDone(<<Len(osArgs) = 2, Atoi(v).ok, parseOk, convertOk,
                         clientOk>>)
    IN  /\ pc = "run"
        /\ steps' = SubSeq(RunSteps, 1, n)
        /\ env' = IF n >= 1 THEN [read |-> TRUE, val |-> v] ELSE env
        /\ numJobs' = IF n >= 2 THEN Atoi(v).val ELSE numJobs
        /\ IF n = 5
           THEN pc' = "register" /\ i' = 0 /\ exitCode' = exitCode
           ELSE Fatal /\ i' = i
        /\ UNCHANGED <<osArgs, calls, registered, statusVars, setupVars,
                       teardownVars>>

\* MoreJobs with <= for <
MoreJobsInclusive(n, k) == n <= k

\* the loop condition i < numJobs
MoreJobs(n, k) == n < k

\* one pass of the loop whose jobs.Register succeeds
RegisterOk ==
    /\ pc = "register"
    /\ MoreJobs(i, numJobs)
    /\ calls' = Append(calls, JobID(i))
    /\ registered' = Append(registered, JobID(i))
    /\ i' = i + 1
    /\ UNCHANGED <<osArgs, pc, exitCode, env, steps, numJobs, statusVars,
                   setupVars, teardownVars>>

\* RegisterFail with log.Printf for log.Fatalf
RegisterFailContinue ==
    /\ pc = "register"
    /\ MoreJobs(i, numJobs)
    /\ calls' = Append(calls, JobID(i))
    /\ i' = i + 1
    /\ UNCHANGED <<osArgs, pc, exitCode, env, steps, numJobs, registered,
                   statusVars, setupVars, teardownVars>>

\* one pass of the loop whose jobs.Register fails: the call was made
RegisterFail ==
    /\ pc = "register"
    /\ MoreJobs(i, numJobs)
    /\ calls' = Append(calls, JobID(i))
    /\ Fatal
    /\ UNCHANGED <<osArgs, env, steps, numJobs, i, registered, statusVars,
                   setupVars, teardownVars>>

\* the loop is over: return 0, which main passes to os.Exit
RunReturn ==
    /\ pc = "register"
    /\ ~MoreJobs(i, numJobs)
    /\ pc' = "exit"
    /\ exitCode' = 0
    /\ UNCHANGED <<osArgs, runVars, statusVars, setupVars, teardownVars>>

\* --------------------------------------------------------- handleStatus
\* HandleStatus with the last written values starting out of range
HandleStatusUnset(clientOk, statusOk) ==
    /\ pc = "status"
    /\ IF Len(osArgs) # 3 \/ ~clientOk \/ ~statusOk
       THEN Fatal /\ UNCHANGED statusVars
       ELSE /\ pc' = "loop"
            /\ index' = 1
            /\ lastTotal' = Nil
            /\ lastPending' = Nil
            /\ lastRunning' = Nil
            /\ UNCHANGED <<exitCode, args, resp, qm, err, allocsTotal,
                           allocsPending, allocsRunning, emitted, sink,
                           setErr, clock, ts, stamps, returnedAt, obs,
                           prevQm>>
    /\ UNCHANGED <<osArgs, runVars, setupVars, teardownVars>>

\* check the args, create the API client and the status client
HandleStatus(clientOk, statusOk) ==
    /\ pc = "status"
    /\ IF Len(osArgs) # 3 \/ ~clientOk \/ ~statusOk
       THEN Fatal /\ UNCHANGED statusVars
       ELSE /\ pc' = "loop"
            /\ index' = 1
            /\ lastTotal' = 0
            /\ lastPending' = 0
            /\ lastRunning' = 0
            /\ UNCHANGED <<exitCode, args, resp, qm, err, allocsTotal,
                           allocsPending, allocsRunning, emitted, sink,
                           setErr, clock, ts, stamps, returnedAt, obs,
                           prevQm>>
    /\ UNCHANGED <<osArgs, runVars, setupVars, teardownVars>>

\* IssueQuery with nil for the query options
IssueQueryDefault ==
    /\ pc = "loop"
    /\ pc' = "query"
    /\ args' = [AllowStale |-> FALSE, WaitIndex |-> 0]
    /\ resp' = <<>>
    /\ qm' = Nil
    /\ err' = FALSE
    /\ allocsTotal' = 0
    /\ allocsPending' = 0
    /\ allocsRunning' = 0
    /\ emitted' = <<>>
    /\ clock' = 0
    /\ ts' = Nil
    /\ stamps' = <<>>
    /\ returnedAt' = Nil
    /\ prevQm' = qm
    /\ UNCHANGED <<osArgs, exitCode, index, lastTotal, lastPending,
                   lastRunning, sink, setErr, obs, runVars, setupVars,
                   teardownVars>>

\* top of the loop: set up the args and start the query; the locals of the
\* loop body are fresh in every iteration
IssueQuery ==
    /\ pc = "loop"
    /\ pc' = "query"
    /\ args' = [AllowStale |-> TRUE, WaitIndex |-> index]
    /\ resp' = <<>>
    /\ qm' = Nil
    /\ err' = FALSE
    /\ allocsTotal' = 0
    /\ allocsPending' = 0
    /\ allocsRunning' = 0
    /\ emitted' = <<>>
    /\ clock' = 0
    /\ ts' = Nil
    /\ stamps' = <<>>
    /\ returnedAt' = Nil
    /\ prevQm' = qm
    /\ UNCHANGED <<osArgs, exitCode, index, lastTotal, lastPending,
                   lastRunning, sink, setErr, obs, runVars, setupVars,
                   teardownVars>>

\* QueryFail with log.Fatalf for log.Printf
QueryFailFatal ==
    /\ pc = "query"
    /\ err' = TRUE
    /\ clock' = clock + 1
    /\ Fatal
    /\ UNCHANGED <<osArgs, index, lastTotal, lastPending, lastRunning, args,
                   resp, qm, allocsTotal, allocsPending, allocsRunning,
                   emitted, sink, setErr, ts, stamps, returnedAt, obs, prevQm,
                   runVars, setupVars, teardownVars>>

\* allocs.List returned an error: log and continue
QueryFail ==
    /\ pc = "query"
    /\ err' = TRUE
    /\ clock' = clock + 1
    /\ pc' = "loop"
    /\ UNCHANGED <<osArgs, exitCode, index, lastTotal, lastPending,
                   lastRunning, args, resp, qm, allocsTotal, allocsPending,
                   allocsRunning, emitted, sink, setErr, ts, stamps,
                   returnedAt, obs, prevQm, runVars, setupVars, teardownVars>>

\* SameIndex with the check of the index lost
SameIndexNever(li, idx) == FALSE

\* qm.LastIndex == index
SameIndex(li, idx) == li = idx

\* AdvanceIndex with the assignment lost
AdvanceIndexKeep(idx, li) == idx

\* index = qm.LastIndex
AdvanceIndex(idx, li) == li

\* CountStatus with a default case that counts too
RECURSIVE CountStatusDefault(_, _)
CountStatusDefault(r, s) ==
    IF r = <<>> THEN 0
    ELSE (IF Head(r) \in {s, "failed"} THEN 1 ELSE 0)
             + CountStatusDefault(Tail(r), s)

\* the range loop with its switch: allocations of r with client status s
RECURSIVE CountStatus(_, _)
CountStatus(r, s) ==
    IF r = <<>> THEN 0
    ELSE (IF Head(r) = s THEN 1 ELSE 0) + CountStatus(Tail(r), s)

\* Changed with > for !=
ChangedUp(new, last) == new > last

\* allocsX != lastX
Changed(new, last) == new # last

\* NextLast with the assignment to lastX lost
NextLastKeep(new, last) == last

\* lastX after the if: the written value, or lastX as it was
NextLast(new, last) == IF Changed(new, last) THEN new ELSE last

\* the Set call of one if, or none
SetIfChanged(name, new, last) ==
    IF Changed(new, last) THEN <<[name |-> name, value |-> new]>> ELSE <<>>

\* WriteMetrics with the names of the last two counters exchanged
WriteMetricsSwapped(t, p, r) ==
    SetIfChanged(Names[1], t, lastTotal)
        \o SetIfChanged(Names[3], p, lastPending)
        \o SetIfChanged(Names[2], r, lastRunning)

\* the three ifs, in their order
WriteMetrics(t, p, r) ==
    SetIfChanged(Names[1], t, lastTotal)
        \o SetIfChanged(Names[2], p, lastPending)
        \o SetIfChanged(Names[3], r, lastRunning)

\* the last values passed to Set after the calls em
RECURSIVE Deliver(_, _)
Deliver(s, em) ==
    IF em = <<>> THEN s
    ELSE Deliver([s EXCEPT ![Head(em).name] = Head(em).value], Tail(em))

\* NextLastAfterSet with lastX kept when the write failed
NextLastIfSent(new, last, ok) == IF ok THEN NextLast(new, last) ELSE last

\* lastX after one if: assigned before the Set call, whose result is dropped
NextLastAfterSet(new, last, ok) == NextLast(new, last)

\* StampOf with time.Now() taken at the Set call
StampAtCall(t, callTime) == callTime

\* the timestamp passed to a Set call made at callTime: ts
StampOf(t, callTime) == t

\* allocs.List returned r with qm.LastIndex = li; the Set calls of the
\* iteration, a tick each, return setOk: the rest of the iteration
QueryReturn(r, li, setOk) ==
    /\ pc = "query"
    /\ pc' = "loop"
    /\ resp' = r
    /\ qm' = li
    /\ err' = FALSE
    /\ returnedAt' = clock + 1
    /\ ts' = clock + 1
    /\ IF SameIndex(li, index)
       THEN /\ setOk
            /\ clock' = clock + 1
            /\ UNCHANGED <<index, lastTotal, lastPending, lastRunning,
                           allocsTotal, allocsPending, allocsRunning,
                           emitted, sink, setErr, stamps, obs>>
       ELSE LET t  == Len(r)
                p  == CountStatus(r, "pending")
                rn == CountStatus(r, "running")
                em == WriteMetrics(t, p, rn)
            IN  /\ em = <<>> => setOk
                /\ index' = AdvanceIndex(index, li)
                /\ allocsTotal' = t
                /\ allocsPending' = p
                /\ allocsRunning' = rn
                /\ lastTotal' = NextLastAfterSet(t, lastTotal, setOk)
                /\ lastPending' = NextLastAfterSet(p, lastPending, setOk)
                /\ lastRunning' = NextLastAfterSet(rn, lastRunning, setOk)
                /\ emitted' = em
                /\ stamps' = [k \in 1..Len(em) |->
                                 StampOf(clock + 1, clock + k)]
                /\ clock' = clock + 1 + Len(em)
                /\ sink' = Deliver(sink, em)
                /\ setErr' = IF em = <<>> THEN setErr ELSE ~setOk
                /\ obs' = IF obs = "none" THEN "first" ELSE "later"
    /\ UNCHANGED <<osArgs, exitCode, args, prevQm, runVars, setupVars,
                   teardownVars>>

\* ------------------------------------------------------ handleTeardown
\* check the args, create the API client, list the jobs
HandleTeardown(clientOk, listOk, l) ==
    /\ pc = "teardown"
    /\ IF Len(osArgs) # 3 \/ ~clientOk \/ ~listOk
       THEN Fatal /\ UNCHANGED teardownVars
       ELSE /\ listed' = TRUE
            /\ jobs' = l
            /\ pos' = 0
            /\ pc' = "deregister"
            /\ UNCHANGED <<exitCode, deregCalls, deregistered, dirRemoved>>
    /\ UNCHANGED <<osArgs, statusVars, runVars, setupVars>>

\* one pass of the range loop whose Deregister succeeds
DeregisterOk ==
    /\ pc = "deregister"
    /\ pos < Len(jobs)
    /\ deregCalls' = Append(deregCalls, jobs[pos + 1])
    /\ deregistered' = Append(deregistered, jobs[pos + 1])
    /\ pos' = pos + 1
    /\ UNCHANGED <<osArgs, pc, exitCode, listed, jobs, dirRemoved,
                   statusVars, runVars, setupVars>>

\* DeregisterFail with log.Printf for log.Fatalf
DeregisterFailContinue ==
    /\ pc = "deregister"
    /\ pos < Len(jobs)
    /\ deregCalls' = Append(deregCalls, jobs[pos + 1])
    /\ pos' = pos + 1
    /\ UNCHANGED <<osArgs, pc, exitCode, listed, jobs, deregistered,
                   dirRemoved, statusVars, runVars, setupVars>>

\* one pass of the range loop whose Deregister fails
DeregisterFail ==
    /\ pc = "deregister"
    /\ pos < Len(jobs)
    /\ deregCalls' = Append(deregCalls, jobs[pos + 1])
    /\ Fatal
    /\ UNCHANGED <<osArgs, listed, jobs, pos, deregistered, dirRemoved,
                   statusVars, runVars, setupVars>>

\* RemoveDir with the removal skipped
RemoveDirSkip(removeOk) ==
    /\ pc = "deregister"
    /\ pos >= Len(jobs)
    /\ pc' = "exit"
    /\ exitCode' = 0
    /\ UNCHANGED <<osArgs, teardownVars, statusVars, runVars, setupVars>>

\* the loop is over: remove the directory and return 0, or fail
RemoveDir(removeOk) ==
    /\ pc = "deregister"
    /\ pos >= Len(jobs)
    /\ IF removeOk
       THEN dirRemoved' = TRUE /\ pc' = "exit" /\ exitCode' = 0
       ELSE Fatal /\ UNCHANGED dirRemoved
    /\ UNCHANGED <<osArgs, listed, jobs, pos, deregCalls, deregistered,
                   statusVars, runVars, setupVars>>

\* ------------------------------------------------------------------- spec
Next ==
    \/ \E argv \in ArgvSet : Main(argv)
    \/ \E v \in EnvValues, createOk, writeOk \in BOOLEAN :
           HandleSetup(v, createOk, writeOk)
    \/ \E v \in EnvValues, parseOk, encodeOk, decodeOk, clientOk \in BOOLEAN :
           HandleRun(v, parseOk, ConvertStructJob(encodeOk, decodeOk),
                     clientOk)
    \/ RegisterOk
    \/ RegisterFail
    \/ RunReturn
    \/ \E clientOk, statusOk \in BOOLEAN : HandleStatus(clientOk, statusOk)
    \/ IssueQuery
    \/ QueryFail
    \/ \E r \in Responses, li \in Indexes, setOk \in BOOLEAN :
           QueryReturn(r, li, setOk)
    \/ \E clientOk, listOk \in BOOLEAN, l \in Listings :
           HandleTeardown(clientOk, listOk, l)
    \/ DeregisterOk
    \/ DeregisterFail
    \/ \E removeOk \in BOOLEAN : RemoveDir(removeOk)

Spec == Init /\ [][Next]_vars

\* ----------------------------------------------------- properties: status
\* the counts of a response, by cardinality rather than by the loop
CountOf(r, k) ==
    IF k = 1 THEN Cardinality(DOMAIN r)
    ELSE IF k = 2 THEN Cardinality({j \in DOMAIN r : r[j] = "pending"})
    ELSE Cardinality({j \in DOMAIN r : r[j] = "running"})

\* the value last sent for name n, 0 when none was ever sent
LastEmitted(n) == IF sink[n] = Nil THEN 0 ELSE sink[n]

\* positions of the samples for name n in the Set calls em
SamplesOf(em, n) == {j \in DOMAIN em : em[j].name = n}

\* the last written values
lasts == <<lastTotal, lastPending, lastRunning>>

\* the counts of the iteration
counts == <<allocsTotal, allocsPending, allocsRunning>>

\* a step in which a query returns a response
Returns == pc = "query" /\ pc' # "query" /\ ~err'

\* the loop is at its head after an iteration that counted a response
Recomputed == pc = "loop" /\ ~err /\ qm # Nil /\ qm # args.WaitIndex

\* C1: the wait index never takes a value smaller than one it held before,
\* and changes only when a response reports a strictly greater index.
CursorNeverDecreases ==
    [][index' >= index /\ (index' # index => qm' > index)]_vars

\* C2: in an iteration that recomputes the counts a sample is sent for a name
\* exactly when the new count differs from the value last sent for that name
\* (0 when none was); the sample carries the new count, there is at most one
\* per name, and it never repeats the value sent before it for that name.
EmitIffChanged ==
    [][(Returns /\ qm' # index) =>
          \A k \in 1..3 :
              /\ (SamplesOf(emitted', Names[k]) # {})
                     <=> (CountOf(resp', k) # LastEmitted(Names[k]))
              /\ Cardinality(SamplesOf(emitted', Names[k])) <= 1
              /\ \A j \in SamplesOf(emitted', Names[k]) :
                     /\ emitted'[j].value = CountOf(resp', k)
                     /\ emitted'[j].value # sink[Names[k]]]_vars

\* C2 witness: a later iteration that sent some of the samples, not all
EmitIffChangedWitness ==
    Recomputed /\ obs = "later" /\ Len(emitted) \in {1, 2}

\* C3 as stated: the first counted response sends a sample for all three
\* names whatever the counts; later ones send one on every change and none
\* on a repeat.
FirstObservationEmitsAll ==
    [][(Returns /\ qm' # index) =>
          \A k \in 1..3 :
              (SamplesOf(emitted', Names[k]) # {})
                  <=> (obs = "none" \/ CountOf(resp', k) # LastEmitted(Names[k]))]_vars

\* C3 amended: the first counted response sends a sample for exactly the
\* names whose count is not 0; later ones send one on every change and none
\* on a repeat.
FirstObservationEmitsNonZero ==
    [][(Returns /\ qm' # index) =>
          \A k \in 1..3 :
              (SamplesOf(emitted', Names[k]) # {})
                  <=> IF obs = "none" THEN CountOf(resp', k) # 0
                      ELSE CountOf(resp', k) # LastEmitted(Names[k])]_vars

\* C3 witness: the first counted response had no pending allocation and
\* sent no "booting" sample, but sent the other two
FirstObservationWitness ==
    /\ Recomputed
    /\ obs = "first"
    /\ allocsPending = 0
    /\ Len(emitted) = 2
    /\ sink["booting"] = Nil

\* C4: a response whose LastIndex equals the wait index sends no sample,
\* leaves the index, the last written values and the status server as they
\* were and counts nothing, whatever allocations it carries; the loop goes
\* back to its head, from where the only step is the next query.
SameIndexIsNoOp ==
    [][/\ (Returns /\ qm' = index) =>
              /\ pc' = "loop"
              /\ emitted' = <<>>
              /\ index' = index
              /\ lasts' = lasts
              /\ counts' = <<0, 0, 0>>
              /\ sink' = sink
       /\ (pc = "loop" /\ ~err /\ qm = index) =>
              /\ pc' = "query"
              /\ args'.WaitIndex = index]_vars

\* C4 witness: such a response carried allocations whose count differs from
\* the last written one
SameIndexWitness ==
    /\ pc = "loop"
    /\ ~err
    /\ qm = args.WaitIndex
    /\ index = qm
    /\ emitted = <<>>
    /\ Len(resp) # lastTotal
    /\ obs = "later"

\* C5: a failed query keeps the process in the loop, leaves the index and
\* the last written values as they were and sends no sample; the next query
\* carries the same wait index as the failed one.
QueryFailureRetries ==
    [][/\ (pc = "query" /\ err') =>
              /\ pc' = "loop"
              /\ exitCode' = Nil
              /\ index' = index
              /\ lasts' = lasts
              /\ emitted' = <<>>
              /\ sink' = sink
       /\ (pc = "loop" /\ err) =>
              /\ pc' = "query"
              /\ args'.WaitIndex = args.WaitIndex
              /\ args'.AllowStale]_vars

\* C5 witness: a query was issued again after a failed one, with work done
\* before
QueryFailureWitness ==
    /\ pc = "query"
    /\ prevQm = Nil
    /\ obs = "later"
    /\ args.WaitIndex = index
    /\ index > 1

\* C6: when a query returned a response, the wait index of the next query is
\* at least the LastIndex of that response.
NextWaitIndexCoversLastIndex ==
    (pc = "query" /\ prevQm # Nil) => args.WaitIndex >= prevQm

\* C6 witness: a query in flight after a response that moved the index
NextWaitIndexWitness ==
    /\ pc = "query"
    /\ prevQm # Nil
    /\ prevQm > 1
    /\ obs = "later"

\* C7: the counts of a counted response satisfy total = pending + running +
\* other: total is the number of allocations, pending and running the
\* numbers with exactly those statuses, all of them taken from this
\* response alone.
TotalIsSumOfCounts ==
    Recomputed =>
        /\ allocsTotal = Len(resp)
        /\ allocsPending = CountOf(resp, 2)
        /\ allocsRunning = CountOf(resp, 3)
        /\ allocsTotal = allocsPending + allocsRunning
               + Cardinality({j \in DOMAIN resp :
                                 resp[j] \notin {"pending", "running"}})

\* C7 witness: a later response with one allocation of each kind
TotalIsSumWitness ==
    /\ Recomputed
    /\ obs = "later"
    /\ allocsTotal = 3
    /\ allocsPending = 1
    /\ allocsRunning = 1

\* C8: a response at a higher index whose counts equal the values last sent
\* sends no sample and still moves the wait index to its LastIndex.
SameCountsAdvanceSilently ==
    [][(/\ Returns
        /\ qm' > index
        /\ \A k \in 1..3 : CountOf(resp', k) = LastEmitted(Names[k])) =>
          /\ emitted' = <<>>
          /\ sink' = sink
          /\ index' = qm']_vars

\* C8 witness: after every name was sent, a non-empty response at a higher
\* index sent nothing and moved the index
SameCountsWitness ==
    /\ Recomputed
    /\ qm > args.WaitIndex
    /\ index = qm
    /\ emitted = <<>>
    /\ Len(resp) > 0
    /\ \A k \in 1..3 : sink[Names[k]] = CountOf(resp, k)

\* C9: from index 1 with nothing sent, a response with LastIndex 5 and the
\* allocations running, pending, running sets the index to 5 and sends
\* exactly placed=3, booting=1, running=2.
ScenarioFirstResponse ==
    [][(/\ Returns
        /\ index = 1
        /\ obs = "none"
        /\ \A k \in 1..3 : sink[Names[k]] = Nil
        /\ qm' = 5
        /\ resp' = <<"running", "pending", "running">>) =>
          /\ index' = 5
          /\ emitted' = << [name |-> "placed", value |-> 3],
                           [name |-> "booting", value |-> 1],
                           [name |-> "running", value |-> 2] >>]_vars

\* C9 witness: the loop head right after that response
ScenarioWitness ==
    /\ Recomputed
    /\ obs = "first"
    /\ args.WaitIndex = 1
    /\ qm = 5
    /\ resp = <<"running", "pending", "running">>
    /\ Len(emitted) = 3

\* ------------------------------------------------------- properties: run
\* value of the digit string d, by powers of ten
DecimalValue(d) ==
    LET RECURSIVE Sum(_)
        Sum(k) == IF k = 0 THEN 0
                  ELSE DigitVal(d[k]) * 10 ^ (Len(d) - k) + Sum(k - 1)
    IN  Sum(Len(d))

\* id is "job-" followed by n in decimal
IsJobID(id, n) ==
    /\ Len(id) >= 5
    /\ SubSeq(id, 1, 4) = <<"j", "o", "b", "-">>
    /\ LET d == SubSeq(id, 5, Len(id))
       IN  /\ \A k \in DOMAIN d : IsDigit(d[k])
           /\ Len(d) > 1 => d[1] # "0"
           /\ DecimalValue(d) = n

\* C10: run with count K >= 0 whose registrations all succeed makes exactly
\* K Register calls, for job-0, job-1, ..., job-(K-1) in that order, and
\* then exits with status 0.
RunRegistersInOrder ==
    (pc \in {"register", "exit"} /\ osArgs[2] = "run" /\ numJobs >= 0) =>
        /\ Len(registered) = i
        /\ i <= numJobs
        /\ \A k \in 1..Len(registered) : IsJobID(registered[k], k - 1)
        /\ pc = "exit" => (i = numJobs /\ exitCode = 0)

\* C10 witness: a run of more than ten jobs has exited
RunRegistersWitness ==
    /\ pc = "exit"
    /\ osArgs[2] = "run"
    /\ numJobs > 10
    /\ Len(registered) = numJobs

\* the process runs the command c
Command(c) == Len(osArgs) >= 2 /\ osArgs[2] = c

\* C11: when the Register call for job-i fails the process ends fatally in
\* that step: the failed call is the last one made, the registrations
\* job-0 .. job-(i-1) stay as they are, nothing is deregistered, the exit
\* status is not 0 and no step follows.
RegisterFailureIsFatal ==
    [][/\ (Len(calls') # Len(registered')) =>
              /\ pc' = "fatal"
              /\ exitCode' = 1
              /\ Len(calls') = Len(registered') + 1
              /\ IsJobID(calls'[Len(calls')], Len(registered'))
       /\ (pc = "register" /\ pc' = "fatal") =>
              /\ registered' = registered
              /\ Len(registered) = i
              /\ deregCalls' = <<>>
              /\ deregistered' = <<>>
       /\ pc # "fatal"]_vars

\* C11 witness: the call for job-2 failed with more jobs to go
RegisterFailureWitness ==
    /\ pc = "fatal"
    /\ Command("run")
    /\ Len(registered) = 2
    /\ Len(calls) = 3
    /\ numJobs > 3

\* s is a decimal count greater than 0, with or without a + sign
IsPositiveCount(s) ==
    LET d == IF Len(s) > 0 /\ s[1] = "+" THEN Tail(s) ELSE s
    IN  /\ d # <<>>
        /\ \A k \in DOMAIN d : IsDigit(d[k])
        /\ DecimalValue(d) > 0

\* C12: run takes its count only if it is a positive integer: with a
\* missing, non-numeric, zero or negative NOMAD_NUM_JOBS the command ends
\* fatally without a Register call.
RunCountValidated ==
    (env.read /\ ~IsPositiveCount(env.val)) =>
        /\ pc = "fatal"
        /\ exitCode = 1
        /\ calls = <<>>

\* C13: teardown removes the directory only after a Deregister call has
\* succeeded for every job of the listing; when the listing or a Deregister
\* call fails the process ends fatally in that step, no further Deregister
\* call is made and the directory stays.
TeardownFailsFast ==
    [][/\ dirRemoved' => (listed' /\ deregistered' = jobs' /\ pc' = "exit")
       /\ (pc \in {"teardown", "deregister"} /\ pc' = "fatal") =>
              /\ ~dirRemoved'
              /\ exitCode' = 1
              /\ deregistered' = deregistered
       /\ (pc = "teardown" /\ pc' = "fatal") => deregCalls' = <<>>
       /\ (Len(deregCalls') # Len(deregistered')) =>
              /\ pc' = "fatal"
              /\ Len(deregCalls') = Len(deregistered') + 1
              /\ deregCalls' = SubSeq(jobs', 1, Len(deregCalls'))
       /\ (Command("teardown") /\ pc = "fatal") => FALSE]_vars

\* C13 witness: the second Deregister call failed with more jobs listed
TeardownFailsFastWitness ==
    /\ pc = "fatal"
    /\ Command("teardown")
    /\ Len(deregistered) = 1
    /\ Len(deregCalls) = 2
    /\ Len(jobs) > 2
    /\ ~dirRemoved

\* C14 as stated: teardown with an empty listing makes no Deregister call,
\* removes the directory and exits with status 0.
TeardownOfNothingSucceeds ==
    (listed /\ jobs = <<>> /\ pc \in {"exit", "fatal"}) =>
        /\ deregCalls = <<>>
        /\ dirRemoved
        /\ exitCode = 0

\* C14 amended: teardown with an empty listing makes no Deregister call and
\* goes straight to the removal of the directory; it exits with status 0
\* exactly when the removal succeeded, and fatally when it failed.
TeardownOfNothingRemovesDir ==
    [][(listed' /\ jobs' = <<>>) =>
          /\ deregCalls' = <<>>
          /\ pc' \in {"deregister", "exit", "fatal"}
          /\ (pc' = "exit") <=> dirRemoved'
          /\ pc' = "exit" => exitCode' = 0
          /\ pc' = "fatal" => exitCode' = 1
          /\ pc = "deregister" => pc' \in {"exit", "fatal"}]_vars

\* C14 witness: teardown of nothing removed the directory and exited
TeardownOfNothingWitness ==
    /\ listed
    /\ jobs = <<>>
    /\ pc = "exit"
    /\ dirRemoved
    /\ exitCode = 0

\* C19: run makes no Register call unless the argument check, the count
\* parsing, the job file parsing, the conversion and the client creation
\* have all succeeded, in that order; when one of them fails the command
\* ends fatally without a Register call.
RunRegistersOnlyAfterSetup ==
    /\ calls # <<>> =>
           steps = <<"args", "count", "parse", "convert", "client">>
    /\ (Command("run") /\ pc \in {"register", "exit"}) =>
           steps = <<"args", "count", "parse", "convert", "client">>
    /\ (Command("run") /\ pc = "fatal" /\ Len(steps) < 5) =>
           /\ calls = <<>>
           /\ exitCode = 1
           /\ steps = SubSeq(<<"args", "count", "parse", "convert", "client">>,
                             1, Len(steps))

\* C19 witness: the conversion failed after the parsing, nothing registered
RunSetupFailureWitness ==
    /\ Command("run")
    /\ pc = "fatal"
    /\ steps = <<"args", "count", "parse">>
    /\ numJobs > 0
    /\ calls = <<>>

\* C15: once status has created both clients the process stays in the loop:
\* every step from the loop head starts a query, every step from a query
\* goes back to the loop head whatever the query and the Set calls return,
\* both are always possible, and the process never exits.
StatusNeverReturns ==
    /\ [](pc = "loop" => ENABLED IssueQuery)
    /\ [](pc = "query" =>
             /\ ENABLED QueryFail
             /\ ENABLED (\E r \in Responses, li \in Indexes :
                            QueryReturn(r, li, FALSE) \/ QueryReturn(r, li, TRUE)))
    /\ [](Command("status") =>
             /\ pc # "exit"
             /\ pc = "fatal" => (obs = "none" /\ ~args.AllowStale))
    /\ [][/\ pc = "loop" => (pc' = "query" /\ exitCode' = Nil)
          /\ pc = "query" => (pc' = "loop" /\ exitCode' = Nil)]_vars

\* C15 witness: a query in flight after Set calls that returned an error
StatusNeverReturnsWitness ==
    /\ pc = "query"
    /\ setErr
    /\ obs = "later"
    /\ exitCode = Nil

\* C16: every query carries AllowStale = true and the current index as its
\* wait index; the first query carries 1, and a query after a failed query
\* or after a response with an equal index carries the wait index of the
\* query before it.
EveryQueryWaitsOnCursor ==
    [][/\ pc' = "query" => (args'.AllowStale /\ args'.WaitIndex = index')
       /\ (pc = "loop" /\ ~args.AllowStale) => args'.WaitIndex = 1
       /\ (pc = "loop" /\ args.AllowStale /\ (err \/ qm = args.WaitIndex)) =>
              /\ pc' = "query"
              /\ args'.WaitIndex = args.WaitIndex]_vars

\* C16 witness: the query after the first counted response, which moved the
\* index to 5
EveryQueryWitness ==
    /\ pc = "query"
    /\ args = [AllowStale |-> TRUE, WaitIndex |-> 5]
    /\ prevQm = 5
    /\ obs = "first"

\* C17: Set calls that return an error keep the process in the loop and
\* leave the index where the response put it; in the loop every last
\* written value equals the value of the latest Set call made for its name,
\* 0 if none was made, whatever the calls returned, so that after a failed
\* write nothing is sent again while the counts stay the same.
SetErrorsAreDropped ==
    /\ [](pc \in {"loop", "query"} =>
             \A k \in 1..3 : lasts[k] = LastEmitted(Names[k]))
    /\ [][Returns =>
             /\ pc' = "loop"
             /\ exitCode' = Nil
             /\ index' = qm'
             /\ (setErr /\ \A k \in 1..3 :
                               CountOf(resp', k) = LastEmitted(Names[k])) =>
                    (emitted' = <<>> /\ setErr')]_vars

\* C17 witness: after Set calls that failed, a response with the same
\* counts at another index was counted and nothing was sent
SetErrorsWitness ==
    /\ Recomputed
    /\ setErr
    /\ emitted = <<>>
    /\ Len(resp) > 0
    /\ obs = "later"

\* name a is before name b in the order placed, booting, running
NameBefore(a, b) ==
    \E x, y \in 1..3 : Names[x] = a /\ Names[y] = b /\ x < y

\* C18: an iteration makes at most three Set calls, at most one per name, in
\* the order placed, booting, running, all with the one timestamp taken when
\* the query returned, also when the index turns out to be equal; nothing
\* is sent while a query is out or when it fails.
SamplesShareReturnTimestamp ==
    [][/\ Returns =>
              /\ ts' = returnedAt'
              /\ returnedAt' = clock + 1
              /\ Len(emitted') <= 3
              /\ \A a, b \in DOMAIN emitted' :
                     a < b => NameBefore(emitted'[a].name, emitted'[b].name)
              /\ Len(stamps') = Len(emitted')
              /\ \A a \in DOMAIN stamps' : stamps'[a] = returnedAt'
       /\ (pc' = "query" \/ err') =>
              /\ emitted' = <<>>
              /\ stamps' = <<>>
              /\ sink' = sink
              /\ ts' = Nil]_vars

\* C18 witness: a later iteration sent all three samples with the timestamp
\* of the return, the last of them two ticks after it
SamplesTimestampWitness ==
    /\ Recomputed
    /\ obs = "later"
    /\ Len(emitted) = 3
    /\ stamps = <<returnedAt, returnedAt, returnedAt>>
    /\ ts = returnedAt
    /\ clock = returnedAt + 3

====
